---- MODULE Spec2Model ----
(***************************************************************************)
(* Model of src/src/extension.ts: the two commands of the extension,       *)
(* "codeCommentGenerator.setApiKey" and                                     *)
(* "codeCommentGenerator.generateComments".                                 *)
(*                                                                         *)
(* Text is a sequence of one-character strings.  Line numbers and columns  *)
(* are zero-based as in the editor API; sequences are one-based, so the    *)
(* document line n is doc[n + 1].                                          *)
(***************************************************************************)
EXTENDS Integers, Sequences, FiniteSets, TLC

(* ------------------------------ bounds --------------------------------- *)
MaxDocLines == 2
MaxReplyLines == 2

(* ------------------------------ inputs --------------------------------- *)
\* Texts a document line can hold.
LineTexts == { <<>>, <<" ">>, <<"x">> }
\* Texts one line of the model's reply can hold.
ReplyLineTexts ==
  { <<>>, <<"/", "/", " ", "x">>, <<"#">>, <<" ", "#", "x">>, <<"#", "#">> }
\* End-of-line sequences of a document.
Eols == { <<"\n">>, <<"\r", "\n">> }

\* JavaScript's undefined, for values that are otherwise text.
Undefined == <<"undefined">>
\* JavaScript's undefined, for values that are otherwise line numbers.
UndefinedLine == -1

\* What showInputBox can resolve to (Undefined: the box was dismissed).
KeyInputs == { Undefined, <<>>, <<" ">>, <<" ", "k">> }

WhiteSpace == { " ", "\t", "\n", "\r" }

(* ---------------------------- string helpers --------------------------- *)
RECURSIVE TrimStart(_)
TrimStart(s) ==
  IF s # <<>> /\ Head(s) \in WhiteSpace THEN TrimStart(Tail(s)) ELSE s

RECURSIVE TrimEnd(_)
TrimEnd(s) ==
  IF s # <<>> /\ s[Len(s)] \in WhiteSpace
    THEN TrimEnd(SubSeq(s, 1, Len(s) - 1))
    ELSE s

\* String.prototype.trim
Trim(s) == TrimEnd(TrimStart(s))

\* One piece of split(/\r?\n/): the regex takes a "\r" that precedes "\n".
DropCr(p) ==
  IF p # <<>> /\ p[Len(p)] = "\r" THEN SubSeq(p, 1, Len(p) - 1) ELSE p

RECURSIVE SplitFrom(_, _, _)
SplitFrom(s, cur, acc) ==
  IF s = <<>> THEN Append(acc, cur)
  ELSE IF Head(s) = "\n" THEN SplitFrom(Tail(s), <<>>, Append(acc, DropCr(cur)))
  ELSE SplitFrom(Tail(s), Append(cur, Head(s)), acc)

\* s.split(/\r?\n/)
Split(s) == SplitFrom(s, <<>>, <<>>)

\* a.filter(l => l.trim())
NonBlank(a) == SelectSeq(a, LAMBDA l : Trim(l) # <<>>)

RECURSIVE Join(_, _)
\* a.join(sep)
Join(a, sep) ==
  IF a = <<>> THEN <<>>
  ELSE IF Len(a) = 1 THEN a[1]
  ELSE a[1] \o sep \o Join(Tail(a), sep)

(* ------------------------------- editor -------------------------------- *)
Positions(d) ==
  { p \in [line : 0 .. Len(d) - 1, character : 0 .. 1] :
      p.character <= Len(d[p.line + 1]) }

Before(p, q) ==
  p.line < q.line \/ (p.line = q.line /\ p.character < q.character)

\* Selection.isEmpty
IsEmpty(s) == s.start = s.end

\* document.getText(range): the text between two positions, lines joined by
\* the document's end-of-line sequence.
GetTextRange(d, e, s) ==
  IF s.start.line = s.end.line
    THEN SubSeq(d[s.start.line + 1], s.start.character + 1, s.end.character)
    ELSE Join(
      [ i \in 1 .. (s.end.line - s.start.line + 1) |->
          IF i = 1
            THEN SubSeq(d[s.start.line + 1], s.start.character + 1,
                        Len(d[s.start.line + 1]))
          ELSE IF i = s.end.line - s.start.line + 1
            THEN SubSeq(d[s.end.line + 1], 1, s.end.character)
          ELSE d[s.start.line + i] ],
      e)

\* document.getText(): the whole document
GetTextAll(d, e) == Join(d, e)

(* --------------------------- credential store -------------------------- *)
\* setKey: the value handed to secrets.store
StoredValue(key) == Trim(key)

\* The guard "if (!key)" of setApiKey
NoKeyEntered(key) == key = Undefined \/ key = <<>>

KeyMissingApiKeyOnly(k) == k = Undefined
\* The guard "if (!apiKey)" of generateComments
KeyMissing(k) == k = Undefined \/ k = <<>>

(* ---------------------------- generateComments ------------------------- *)
NothingToCommentNoTrim(t) == t = <<>>
\* The guard "if (!fullText.trim())"
NothingToComment(t) == Trim(t) = <<>>

RECURSIVE OffsetsLoop(_, _, _, _)
\* The for-loop over fullText.split(/\r?\n/) that fills lineOffsets.
OffsetsLoop(pieces, offset, endLine, acc) ==
  IF pieces = <<>> THEN acc
  ELSE LET acc2 == IF Trim(Head(pieces)) # <<>> THEN Append(acc, offset) ELSE acc
       IN IF offset + 1 > endLine
            THEN acc2
            ELSE OffsetsLoop(Tail(pieces), offset + 1, endLine, acc2)

LineOffsets(t, s) == OffsetsLoop(Split(t), s.start.line, s.end.line, <<>>)

RequestPerLine(ls, k) == [ i \in 1 .. Len(ls) |-> [content |-> ls[i], auth |-> k] ]
\* The requests one invocation posts: the retained lines, newline-joined.
BatchRequest(ls, k) == << [content |-> Join(ls, <<"\n">>), auth |-> k] >>

\* commentLines[i].replace(/^\/\/\s?|^#\s?/, "")
StripMarker(c) ==
  LET rest(n) == SubSeq(c, n + 1, Len(c))
      optWs(r) == IF r # <<>> /\ Head(r) \in WhiteSpace THEN Tail(r) ELSE r
  IN IF Len(c) >= 2 /\ c[1] = "/" /\ c[2] = "/" THEN optWs(rest(2))
     ELSE IF Len(c) >= 1 /\ c[1] = "#" THEN optWs(rest(1))
     ELSE c

\* lineOffsets[i] with the zero-based index i
OffsetAt(offs, i) == IF i + 1 <= Len(offs) THEN offs[i + 1] ELSE UndefinedLine

Min(a, b) == IF a < b THEN a ELSE b

RECURSIVE MatchLoop(_, _, _, _, _)
\* The loop that matches reply lines to retained lines and fills comments.
MatchLoop(i, n, cls, offs, acc) ==
  IF i >= n THEN acc
  ELSE LET comment == Trim(StripMarker(cls[i + 1]))
       IN MatchLoop(i + 1, n, cls, offs,
            IF comment # <<>>
              THEN Append(acc, [line |-> OffsetAt(offs, i),
                                text |-> <<"/", "/", " ">> \o comment])
              ELSE acc)

\* raw.split(/\r?\n/).filter(c => c.trim()) of the trimmed reply content
CommentLines(content) == NonBlank(Split(Trim(content)))

ErrTextMessageFirst(e) ==
  IF e.message # "" THEN e.message
  ELSE IF e.upstream # "" THEN e.upstream
  ELSE "Network error"
\* err.response?.data?.error?.message || err.message || "Network error"
\* (an absent or empty text is "")
ErrText(e) ==
  IF e.upstream # "" THEN e.upstream
  ELSE IF e.message # "" THEN e.message
  ELSE "Network error"

\* The insertions the edit callback issues: comments, last to first.
Insertions(cs) ==
  [ j \in 1 .. Len(cs) |->
      [line |-> cs[Len(cs) + 1 - j].line, character |-> 0,
       text |-> cs[Len(cs) + 1 - j].text \o <<"\n">>] ]

(* ------------------------------ responses ------------------------------ *)
Replies ==
  UNION { [1 .. n -> ReplyLineTexts] : n \in 0 .. MaxReplyLines }

\* What the awaited axios.post can do: resolve with a body, or reject.
\* "ok": a body of the expected shape; "nochoices", "nocontent": a 2xx body
\* that is not; "error": a rejection (no response, or a non-2xx status).
Responses ==
  { [kind |-> "ok", content |-> Join(r, <<"\n">>), upstream |-> "", message |-> ""] :
      r \in Replies }
  \cup { [kind |-> k, content |-> <<>>, upstream |-> "", message |-> ""] :
      k \in {"nochoices", "nocontent"} }
  \cup { [kind |-> "error", content |-> <<>>, upstream |-> u, message |-> m] :
      u \in {"", "Invalid API Key"},
      m \in {"", "Request failed with status code 401"} }

\* The exception the try block ends with when the call rejects or the body
\* is not of the expected shape (a TypeError from the property chain).
Thrown(r) ==
  IF r.kind = "error" THEN [upstream |-> r.upstream, message |-> r.message]
  ELSE IF r.kind = "nochoices"
    THEN [upstream |-> "", message |-> "Cannot read properties of undefined (reading '0')"]
  ELSE [upstream |-> "", message |-> "Cannot read properties of null (reading 'trim')"]

(* ---------------------------- notifications ---------------------------- *)
\* A notification: its severity and its text, as the pieces it is built from.
Note(kind, text) == [kind |-> kind, text |-> text]
NoEditorNote == Note("warning", <<"Open a file first.">>)
NoCodeNote == Note("warning", <<"No code to comment.">>)
KeyMissingNote ==
  Note("error", <<"Groq API key missing. Run **CodeCommentGenerator: Set Groq API Key** first.">>)
GroqErrorNote(msg) == Note("error", <<"Groq error: ", msg>>)
SuccessNote == Note("information", <<"Inline comments added!">>)

(* -------------------------------- state -------------------------------- *)
VARIABLES
  hasEditor,    \* vscode.window.activeTextEditor is set
  doc,          \* the lines of the active document
  eol,          \* its end-of-line sequence
  sel,          \* editor.selection
  secret,       \* ctx.secrets under KEY_NAME
  setNote,      \* the notification of the latest setApiKey run ("none" before)
  pc,           \* where the generateComments invocation stands
  fullText, apiKey, lines, lineOffsets, commentLines, comments,
  resp,         \* what the awaited axios.post settled with
  keyReads,     \* number of getKey calls of the invocation
  requests,     \* the axios.post calls of the invocation
  edits,        \* the editor.edit transactions of the invocation
  editResult,   \* what the awaited editor.edit did
  notes         \* the notifications of the invocation

vars ==
  << hasEditor, doc, eol, sel, secret, setNote, pc, fullText, apiKey, lines,
     lineOffsets, commentLines, comments, resp, keyReads, requests, edits,
     editResult, notes >>

editorVars == << hasEditor, doc, eol, sel >>
localVars == << fullText, apiKey, lines, lineOffsets, commentLines, comments, resp >>

\* The placeholder for resp while axios.post has not settled.
NoResponse == [kind |-> "none", content |-> <<>>, upstream |-> "", message |-> ""]

Docs == UNION { [1 .. n -> LineTexts] : n \in 1 .. MaxDocLines }

Selections(d) ==
  { s \in [start : Positions(d), end : Positions(d)] :
      s.start = s.end \/ Before(s.start, s.end) }

Init ==
  /\ hasEditor \in BOOLEAN
  /\ doc \in Docs
  /\ eol \in Eols
  /\ sel \in Selections(doc)
  /\ (~hasEditor) => (doc = << <<>> >> /\ eol = <<"\n">>)
  /\ secret = Undefined
  /\ setNote = "none"
  /\ pc = "idle"
  /\ fullText = <<>>
  /\ apiKey = Undefined
  /\ lines = <<>>
  /\ lineOffsets = <<>>
  /\ commentLines = <<>>
  /\ comments = <<>>
  /\ resp = NoResponse
  /\ keyReads = 0
  /\ requests = <<>>
  /\ edits = <<>>
  /\ editResult = "none"
  /\ notes = <<>>

(* ------------------------------- actions ------------------------------- *)
\* codeCommentGenerator.setApiKey, with the input box resolving to key
\* (the dash of the warning's text is written "-" here)
SetApiKey(key) ==
  /\ IF NoKeyEntered(key)
       THEN /\ setNote' = "Cancelled - no key saved."
            /\ UNCHANGED secret
       ELSE /\ secret' = StoredValue(key)
            /\ setNote' = "Groq API key saved securely."
  /\ UNCHANGED << editorVars, pc, localVars, keyReads, requests, edits,
                  editResult, notes >>

\* generateComments up to its first await (getKey)
GenerateStart ==
  /\ pc = "idle"
  /\ IF ~hasEditor
       THEN /\ notes' = Append(notes, NoEditorNote)
            /\ pc' = "done"
            /\ UNCHANGED fullText
       ELSE LET t == IF IsEmpty(sel) THEN GetTextAll(doc, eol)
                                     ELSE GetTextRange(doc, eol, sel)
            IN /\ fullText' = t
               /\ IF NothingToComment(t)
                    THEN /\ notes' = Append(notes, NoCodeNote)
                         /\ pc' = "done"
                    ELSE /\ pc' = "awaitKey"
                         /\ UNCHANGED notes
  /\ UNCHANGED << editorVars, secret, setNote, apiKey, lines, lineOffsets,
                  commentLines, comments, resp, keyReads, requests, edits,
                  editResult >>

\* from the resolution of getKey to the await of axios.post
GenerateGotKey ==
  /\ pc = "awaitKey"
  /\ apiKey' = secret
  /\ keyReads' = keyReads + 1
  /\ IF KeyMissing(secret)
       THEN /\ notes' = Append(notes, KeyMissingNote)
            /\ pc' = "done"
            /\ UNCHANGED << lines, lineOffsets, requests >>
       ELSE /\ lines' = NonBlank(Split(fullText))
            /\ lineOffsets' = LineOffsets(fullText, sel)
            /\ requests' = requests \o BatchRequest(NonBlank(Split(fullText)), secret)
            /\ pc' = "awaitResp"
            /\ UNCHANGED notes
  /\ UNCHANGED << editorVars, secret, setNote, fullText, commentLines, comments,
                  resp, edits, editResult >>

\* from the settling of axios.post to the await of editor.edit (or the catch)
GenerateResponse(r) ==
  /\ pc = "awaitResp"
  /\ resp' = r
  /\ IF r.kind # "ok"
       THEN /\ notes' = Append(notes, GroqErrorNote(ErrText(Thrown(r))))
            /\ pc' = "done"
            /\ UNCHANGED << commentLines, comments, edits >>
       ELSE LET cls == CommentLines(r.content)
                cs == MatchLoop(0, Min(Len(lines), Len(cls)), cls, lineOffsets, <<>>)
            IN /\ commentLines' = cls
               /\ comments' = cs
               /\ edits' = Append(edits, Insertions(cs))
               /\ pc' = "awaitEdit"
               /\ UNCHANGED notes
  /\ UNCHANGED << editorVars, secret, setNote, fullText, apiKey, lines,
                  lineOffsets, keyReads, requests, editResult >>

\* What the host can do with the transaction: apply it or reject it; with a
\* position whose line is undefined it may also throw.
EditOutcomes(tx) ==
  {"applied", "rejected"}
  \cup (IF \E j \in 1 .. Len(tx) : tx[j].line = UndefinedLine THEN {"threw"} ELSE {})

\* from the settling of editor.edit to the end of the invocation
GenerateEditDone(outcome) ==
  /\ pc = "awaitEdit"
  /\ outcome \in EditOutcomes(edits[Len(edits)])
  /\ editResult' = outcome
  /\ notes' = IF outcome = "threw" THEN notes ELSE Append(notes, SuccessNote)
  /\ pc' = "done"
  /\ UNCHANGED << editorVars, secret, setNote, localVars, keyReads, requests, edits >>

Next ==
  \/ \E key \in KeyInputs : SetApiKey(key)
  \/ GenerateStart
  \/ GenerateGotKey
  \/ \E r \in Responses : GenerateResponse(r)
  \/ \E outcome \in {"applied", "rejected", "threw"} : GenerateEditDone(outcome)

Spec == Init /\ [][Next]_vars

(* ------------------------------- claims -------------------------------- *)
Range(f) == { f[i] : i \in DOMAIN f }
AllWhiteSpace(t) == \A i \in 1 .. Len(t) : t[i] \in WhiteSpace
\* The invocation has run the line-extraction step (lines 77-86).
Extracted == requests # <<>>
\* The zero-based document line on which each retained line lies: the pieces
\* of the text start on the selection's first line, or on line 0 when the
\* selection is empty and the text is the whole document.
RetainedDocLines ==
  LET pieces == Split(fullText)
      base == IF IsEmpty(sel) THEN 0 ELSE sel.start.line
      kept == SelectSeq([i \in 1 .. Len(pieces) |-> i],
                        LAMBDA i : Trim(pieces[i]) # <<>>)
  IN [k \in 1 .. Len(kept) |-> base + kept[k] - 1]

\* C1: in every invocation that reaches the line-extraction step, with an
\* empty or a non-empty selection, every retained line has a recorded line
\* number, and the k-th recorded number is the document line on which the
\* k-th retained line lies.
C1_RecordedLinesAreDocumentLines ==
  Extracted =>
    /\ Len(lineOffsets) = Len(lines)
    /\ Len(lines) = Len(RetainedDocLines)
    /\ \A k \in 1 .. Len(lineOffsets) : lineOffsets[k] = RetainedDocLines[k]

\* C2: every invocation issues its insertions inside one edit transaction,
\* one per comment, each at column 0 of a document line, in strictly
\* descending line-number order.
C2_OneTransactionDescending ==
  /\ Len(edits) <= 1
  /\ \A t \in 1 .. Len(edits) :
       /\ Len(edits[t]) = Len(comments)
       /\ \A j \in 1 .. Len(edits[t]) :
            edits[t][j].character = 0 /\ edits[t][j].line \in Nat
       /\ \A j \in 1 .. Len(edits[t]) - 1 :
            edits[t][j].line > edits[t][j + 1].line

\* C3: when the remote call rejects or its body is malformed, the invocation
\* makes no edit, emits exactly one error notification whose text is the
\* upstream error message, else the exception's message, else the generic
\* network-error text, and emits no success notification.
C3_FailedCallNoEditOneError ==
  resp.kind \in {"error", "nochoices", "nocontent"} =>
    /\ pc = "done"
    /\ edits = <<>>
    /\ editResult = "none"
    /\ Len(notes) = 1
    /\ notes[1].kind = "error"
    /\ notes[1].text[1] = "Groq error: "
    /\ notes[1].text[2] =
         IF resp.upstream # "" THEN resp.upstream
         ELSE IF resp.message # "" THEN resp.message
         ELSE IF resp.kind = "error" THEN "Network error"
         ELSE Thrown(resp).message
    /\ notes[1].text[2] # ""

C3_Witness ==
  /\ pc = "done"
  /\ resp.kind = "error"
  /\ resp.upstream # ""
  /\ resp.message # ""
  /\ Len(notes) = 1

\* C4: when the credential store returns no value (absent or empty) to an
\* invocation on non-blank text, the invocation emits the one error
\* notification that tells the user to set the key, and makes no network
\* call and no edit.
C4_MissingKeyAborts ==
  (keyReads > 0 /\ (apiKey = Undefined \/ Len(apiKey) = 0)) =>
    /\ pc = "done"
    /\ ~AllWhiteSpace(fullText)
    /\ notes = << KeyMissingNote >>
    /\ requests = <<>>
    /\ edits = <<>>

C4_Witness ==
  /\ pc = "done"
  /\ keyReads > 0
  /\ apiKey = <<>>
  /\ setNote = "Groq API key saved securely."

\* C5: when the text of the selection (of the whole document, for an empty
\* selection) is only whitespace, the invocation ends with the "nothing to
\* comment" notification, before the credential is read and with no network
\* call and no edit.
C5_BlankTextAborts ==
  (pc # "idle" /\ hasEditor /\ AllWhiteSpace(fullText)) =>
    /\ pc = "done"
    /\ notes = << NoCodeNote >>
    /\ keyReads = 0
    /\ requests = <<>>
    /\ edits = <<>>

C5_Witness ==
  /\ pc = "done"
  /\ hasEditor
  /\ fullText # <<>>
  /\ AllWhiteSpace(fullText)
  /\ ~IsEmpty(sel)

\* C6: an invocation on non-blank text with a stored credential issues
\* exactly one network request, whose content is the retained lines joined
\* by newlines, however many lines are retained; no invocation issues a
\* second request, and one that stops before the call issues none.
C6_ExactlyOneRequest ==
  /\ Len(requests) <= 1
  /\ (keyReads > 0 /\ apiKey # Undefined /\ apiKey # <<>>) =>
       /\ Len(requests) = 1
       /\ requests[1].content = Join(NonBlank(Split(fullText)), <<"\n">>)
       /\ requests[1].auth = apiKey
  /\ (keyReads = 0 \/ apiKey = Undefined \/ apiKey = <<>>) => requests = <<>>

C6_Witness ==
  /\ pc = "done"
  /\ Len(requests) = 1
  /\ Len(lines) = 2
  /\ editResult = "applied"

\* C7: reply lines pair with retained lines by position.  With N retained
\* lines and K non-blank reply lines, the comments are those of the pairs
\* i < min(N, K), the i-th targeting the line recorded for the i-th retained
\* line; and when K < N no insertion targets the line of a retained line
\* with index >= K.
C7_PairedByPosition ==
  edits # <<>> =>
    LET n == Len(lines)
        k == Len(commentLines)
        m == Min(n, k)
    IN /\ comments = MatchLoop(0, m, commentLines, lineOffsets, <<>>)
       /\ \A c \in Range(comments) : c.line \in Range(lineOffsets)
       /\ k < n =>
            \A c \in Range(comments) :
              \A i \in k + 1 .. Len(RetainedDocLines) :
                c.line # RetainedDocLines[i]

\* C8: every inserted comment is the canonical marker "// " followed by a
\* text that does not itself begin with a marker ("//" or "#"): markers the
\* reply carried, repeated or preceded by whitespace, are stripped.
C8_NoDoubledMarker ==
  \A c \in Range(comments) :
    /\ Len(c.text) > 3
    /\ SubSeq(c.text, 1, 3) = <<"/", "/", " ">>
    /\ c.text[4] # "#"
    /\ ~(Len(c.text) >= 5 /\ c.text[4] = "/" /\ c.text[5] = "/")

\* C9: when the latest setApiKey run ended with the "key saved" notification,
\* the generateComments invocation that then reads the credential does not
\* end with the key-missing error.
C9_SavedKeyIsFound ==
  [][ (pc = "awaitKey" /\ pc' # "awaitKey"
         /\ setNote = "Groq API key saved securely.")
        => KeyMissingNote \notin Range(notes') ]_vars

\* C10: the success notification is emitted only by an invocation whose
\* edit transaction the host applied and which inserted at least one
\* comment.
C10_SuccessOnlyAfterInsertion ==
  SuccessNote \in Range(notes) =>
    /\ editResult = "applied"
    /\ edits # <<>>
    /\ Len(edits[Len(edits)]) >= 1

====
